---- MODULE Spec2Model ----
(***************************************************************************)
(* Model of the Cyan front end and evaluator: the recursive-descent parser *)
(* of ast_parser.py (Parser, ParseResult, the node classes) and the        *)
(* tree-walking interpreter of interpreter.py (the value classes,          *)
(* SymbolMap, Interpreter, run).                                           *)
(*                                                                         *)
(* Conventions.  Python's None is the record None.  A Position is an       *)
(* integer: the i-th token of a stream (1-based) starts at 2i-1 and ends   *)
(* at 2i; a position that is None is NoPos.  Parser.cur_index is 1-based   *)
(* here (the code's index plus one).  A token's value is a string ("" for  *)
(* None); the numeric value of an INT token is kept in the field num.      *)
(***************************************************************************)
EXTENDS Integers, Sequences, FiniteSets, TLC

VARIABLES
    tokens,      \* the token stream handed to make_ast / produced for run
    pc,          \* "start" before make_ast, "parsed" after; "idle", then "ran"
    node,        \* make_ast's first result (res.node)
    error,       \* make_ast's second result (res.error)
    cur_index,   \* parser.cur_index when parse returned
    failures,    \* history: the errors the last parse recorded, in order
    heap,        \* the SymbolMap objects; heap[1] is GLOBAL_SYMBOL_MAP
    result,      \* what the last run() returned, or the exception it let through
    trace,       \* the visits and calls of the last interpret(), in order
    runs         \* number of run() calls so far

vars == <<tokens, pc, node, error, cur_index, failures, heap, result, trace, runs>>

None == [cls |-> "None"]

NoPos == 0

(***************************************************************************)
(* tokens.py                                                               *)
(***************************************************************************)
\* Token.__init__ without positions: type_, value, and the number of an INT
Tok(type_, value, num) == [type_ |-> type_, value |-> value, num |-> num]

\* the positions the tokenizer stamps on the i-th token
PosStart(i) == 2 * i - 1
PosEnd(i) == 2 * i

\* Token.__init__ with pos_start and pos_end
Token(tk, i) ==
    [type_ |-> tk.type_, value |-> tk.value, num |-> tk.num,
     pos_start |-> PosStart(i), pos_end |-> PosEnd(i)]

WithPos(ts) == [i \in 1..Len(ts) |-> Token(ts[i], i)]

is_type(tok, names) == tok.type_ \in names

is_equals(tok, token_name, value) == tok.type_ = token_name /\ tok.value = value

(***************************************************************************)
(* ast_parser.py: the node classes                                         *)
(***************************************************************************)
NumberNode(tok) ==
    [cls |-> "NumberNode", tok |-> tok,
     pos_start |-> tok.pos_start, pos_end |-> tok.pos_end]

LiteralNode(tok) ==
    [cls |-> "LiteralNode", tok |-> tok,
     pos_start |-> tok.pos_start, pos_end |-> tok.pos_end]

BinOpNode(left, oper, right) ==
    [cls |-> "BinOpNode", left |-> left, oper |-> oper, right |-> right,
     pos_start |-> left.pos_start, pos_end |-> right.pos_end]

UnaryOpNode(oper, n) ==
    [cls |-> "UnaryOpNode", oper |-> oper, node |-> n,
     pos_start |-> oper.pos_start, pos_end |-> n.pos_end]

VarAccessNode(var_name) ==
    [cls |-> "VarAccessNode", var_name |-> var_name,
     pos_start |-> var_name.pos_start, pos_end |-> var_name.pos_end]

VarAssignNode(var_name, value) ==
    [cls |-> "VarAssignNode", var_name |-> var_name, value |-> value,
     pos_start |-> var_name.pos_start, pos_end |-> value.pos_end]

\* IfBlockNode.__init__ sets pos_start only: pos_end stays Node.pos_end = None
IfBlockNode(case, else_expr) ==
    [cls |-> "IfBlockNode", case |-> case, else_expr |-> else_expr,
     pos_start |-> case[1].pos_start, pos_end |-> NoPos]

\* FuncDefNode(name, parameters, body).set_pos(pos_start, pos_end)
FuncDefNode(name, parameters, body, pos_start, pos_end) ==
    [cls |-> "FuncDefNode",
     name |-> IF name = "" THEN "[lambda]" ELSE name,
     parameters |-> parameters, body |-> body,
     pos_start |-> pos_start, pos_end |-> pos_end]

\* FuncCallNode(node_to_call, arguments).set_pos(pos_start, pos_end)
FuncCallNode(node_to_call, arguments, pos_start, pos_end) ==
    [cls |-> "FuncCallNode", node_to_call |-> node_to_call,
     arguments |-> arguments, pos_start |-> pos_start, pos_end |-> pos_end]

\* InvalidSyntaxError(pos_start, pos_end, details) at the token tok
InvalidSyntaxError(tok, details) ==
    [cls |-> "InvalidSyntaxError", pos_start |-> tok.pos_start,
     pos_end |-> tok.pos_end, details |-> details]

(***************************************************************************)
(* ast_parser.py: ParseResult.  A result also carries P, the parser's      *)
(* cursor (cur_index, cur_tok) after the production that returned it.      *)
(* P.failures is a history field: every error a ParseResult.failure has    *)
(* recorded so far, with the cursor index it was recorded at.              *)
(***************************************************************************)
ParseResult(P) == [error |-> None, node |-> None, advancements |-> 0, P |-> P]

\* Parser.advance, together with the res.register_adv() that precedes it
advance(toks, P) ==
    LET i == P.cur_index + 1
    IN [cur_index |-> i,
        cur_tok |-> IF i <= Len(toks) THEN toks[i] ELSE P.cur_tok,
        failures |-> P.failures]

register_adv(res) == [res EXCEPT !.advancements = @ + 1]

\* res.register_adv(); self.advance()
adv(toks, res) == [register_adv(res) EXCEPT !.P = advance(toks, res.P)]

\* ParseResult.register: the caller's result after registering sub
register(res, sub) ==
    [res EXCEPT !.advancements = @ + sub.advancements,
                !.error = IF sub.error # None THEN sub.error ELSE @,
                !.P = sub.P]

success(res, n) == [res EXCEPT !.node = n]

failure(res, err) ==
    IF err # None \/ res.advancements = 0
    THEN [res EXCEPT !.error = err,
                     !.P.failures = Append(@, [error |-> err,
                                               cur_index |-> res.P.cur_index])]
    ELSE res

\* Parser.__init__: cur_index = -1, then advance()
Parser(toks) == advance(toks, [cur_index |-> 0, cur_tok |-> None, failures |-> <<>>])

(***************************************************************************)
(* ast_parser.py: the productions                                          *)
(***************************************************************************)
RECURSIVE expr(_, _), call(_, _), call_args(_, _, _), atom(_, _)
RECURSIVE factor(_, _), term(_, _), power(_, _), arith_expr(_, _)
RECURSIVE comp_expr(_, _), bin_oper(_, _, _, _, _), bin_oper_loop(_, _, _, _, _)
RECURSIVE if_expr(_, _), func_def(_, _), production(_, _, _)
RECURSIVE func_def_params(_, _, _)

\* the operator tuples passed to bin_oper: <<type>> or <<type, value>>
AndOr == {<<"KW", "and">>, <<"KW", "or">>}
MulDiv == {<<"MUL">>, <<"DIV">>}
Pow == {<<"POW">>}
PlusMinus == {<<"PLUS">>, <<"MINUS">>}
Comparisons == {<<"EE">>, <<"NE">>, <<"LT">>, <<"GT">>, <<"LTE">>, <<"GTE">>}

\* a production called by name: the bound method passed to bin_oper as
\* func_left / func_right, and every self.<production>() call
production(name, toks, P) ==
    CASE name = "expr" -> expr(toks, P)
      [] name = "comp_expr" -> comp_expr(toks, P)
      [] name = "arith_expr" -> arith_expr(toks, P)
      [] name = "term" -> term(toks, P)
      [] name = "factor" -> factor(toks, P)
      [] name = "call" -> call(toks, P)
      [] name = "atom" -> atom(toks, P)
      [] name = "if_expr" -> if_expr(toks, P)
      [] name = "func_def" -> func_def(toks, P)

\* cur_tok.is_type(*operators) or (cur_tok.type_, cur_tok.value) in operators
is_operator(tok, operators) ==
    <<tok.type_>> \in operators \/ <<tok.type_, tok.value>> \in operators

\* the while loop of bin_oper: res holds the advancements so far
bin_oper_loop(left, res, operators, func_right, toks) ==
    IF ~is_operator(res.P.cur_tok, operators) THEN success(res, left)
    ELSE LET sub == production(func_right, toks, advance(toks, res.P))
         IN IF sub.error # None THEN register(register_adv(res), sub)
            ELSE bin_oper_loop(BinOpNode(left, res.P.cur_tok, sub.node),
                               register(register_adv(res), sub),
                               operators, func_right, toks)

bin_oper(func_left, operators, func_right, toks, P) ==
    LET sub == production(func_left, toks, P)
    IN IF sub.error # None THEN register(ParseResult(P), sub)
       ELSE bin_oper_loop(sub.node, register(ParseResult(P), sub),
                          operators, func_right, toks)

\* the `let` alternative of expr, after the three tokens let IDENTIFIER =
expr_let(toks, res3, var_name) ==
    LET sub == production("expr", toks, res3.P)
    IN IF sub.error # None THEN register(res3, sub)
       ELSE success(register(res3, sub), VarAssignNode(var_name, sub.node))

expr(toks, P) ==
    LET res1 == adv(toks, ParseResult(P))
        res2 == adv(toks, res1)
        sub == bin_oper("comp_expr", AndOr, "comp_expr", toks, P)
    IN CASE ~is_equals(P.cur_tok, "KW", "let") ->
              IF sub.error # None THEN register(ParseResult(P), sub)
              ELSE success(register(ParseResult(P), sub), sub.node)
         [] is_equals(P.cur_tok, "KW", "let")
              /\ ~is_type(res1.P.cur_tok, {"IDENTIFIER"}) ->
              failure(res1, InvalidSyntaxError(res1.P.cur_tok, "Expected identifier"))
         [] is_equals(P.cur_tok, "KW", "let")
              /\ is_type(res1.P.cur_tok, {"IDENTIFIER"})
              /\ ~is_type(res2.P.cur_tok, {"EQ"}) ->
              failure(res2, InvalidSyntaxError(res2.P.cur_tok, "Expected '='"))
         [] OTHER -> expr_let(toks, adv(toks, res2), res1.P.cur_tok)

\* the argument loop of call: `while self.cur_tok.is_type(t.COMMA)`
call_args(res, args, toks) ==
    IF ~is_type(res.P.cur_tok, {"COMMA"})
    THEN [res |-> res, args |-> args, done |-> FALSE]
    ELSE LET sub == production("expr", toks, advance(toks, res.P))
             res2 == register(register_adv(res), sub)
             args2 == Append(args, sub.node)
         IN CASE sub.error # None -> [res |-> res2, args |-> args, done |-> TRUE]
              [] sub.error = None /\ is_type(sub.P.cur_tok, {"R_PAREN"}) ->
                   [res |-> res2, args |-> args2, done |-> FALSE]
              [] sub.error = None /\ ~is_type(sub.P.cur_tok, {"R_PAREN", "COMMA"}) ->
                   [res |-> failure(res2, InvalidSyntaxError(res2.P.cur_tok,
                                                             "Expected ',' or ')'")),
                    args |-> args2, done |-> TRUE]
              [] OTHER -> call_args(res2, args2, toks)

\* the end of call: pos_end, advance, FuncCallNode(...).set_pos(...)
call_close(res, a, args, toks) ==
    success(adv(toks, res),
            FuncCallNode(a, args, a.pos_start, res.P.cur_tok.pos_end))

\* call, once the first argument sub1 is parsed
call_rest(res1, a, sub1, toks) ==
    LET l == call_args(register(res1, sub1), <<sub1.node>>, toks)
    IN CASE l.done -> l.res
         [] ~l.done /\ ~is_type(l.res.P.cur_tok, {"R_PAREN"}) ->
              failure(l.res, InvalidSyntaxError(l.res.P.cur_tok, "Expected ')'"))
         [] OTHER -> call_close(l.res, a, l.args, toks)

call(toks, P) ==
    LET sub == production("atom", toks, P)
        res == register(ParseResult(P), sub)
        res1 == adv(toks, res)
        sub1 == production("expr", toks, res1.P)
    IN CASE sub.error # None -> res
         [] sub.error = None /\ ~is_type(sub.P.cur_tok, {"L_PAREN"}) ->
              success(res, sub.node)
         [] sub.error = None /\ is_type(sub.P.cur_tok, {"L_PAREN"})
              /\ is_type(res1.P.cur_tok, {"R_PAREN"}) ->
              call_close(res1, sub.node, <<>>, toks)
         [] OTHER -> IF sub1.error # None THEN register(res1, sub1)
                     ELSE call_rest(res1, sub.node, sub1, toks)

\* the parenthesised alternative of atom without `if res.error: return res`
atom_paren_unchecked(toks, P) ==
    LET sub == production("expr", toks, advance(toks, P))
        res2 == register(register_adv(ParseResult(P)), sub)
    IN IF is_type(sub.P.cur_tok, {"R_PAREN"})
       THEN success(adv(toks, res2), sub.node)
       ELSE failure(res2, InvalidSyntaxError(res2.P.cur_tok, "Expected ')'"))

\* the parenthesised alternative of atom
atom_paren(toks, P) ==
    LET sub == production("expr", toks, advance(toks, P))
        res2 == register(register_adv(ParseResult(P)), sub)
    IN CASE sub.error # None -> res2
         [] sub.error = None /\ is_type(sub.P.cur_tok, {"R_PAREN"}) ->
              success(adv(toks, res2), sub.node)
         [] OTHER -> failure(res2, InvalidSyntaxError(res2.P.cur_tok, "Expected ')'"))

\* the if / fun alternatives of atom: register, then success without a check
atom_sub(sub, P) == success(register(ParseResult(P), sub), sub.node)

\* atom that steps over the token it cannot use before it fails
atom_advancing(toks, P) ==
    CASE is_type(P.cur_tok, {"INT", "FLOAT"}) ->
           success(adv(toks, ParseResult(P)), NumberNode(P.cur_tok))
      [] is_type(P.cur_tok, {"LITERAL"}) ->
           success(adv(toks, ParseResult(P)), LiteralNode(P.cur_tok))
      [] is_type(P.cur_tok, {"L_PAREN"}) -> atom_paren(toks, P)
      [] is_type(P.cur_tok, {"IDENTIFIER"}) ->
           success(adv(toks, ParseResult(P)), VarAccessNode(P.cur_tok))
      [] is_equals(P.cur_tok, "KW", "if") -> atom_sub(production("if_expr", toks, P), P)
      [] is_equals(P.cur_tok, "KW", "fun") -> atom_sub(production("func_def", toks, P), P)
      [] OTHER -> failure(adv(toks, ParseResult(P)), InvalidSyntaxError(P.cur_tok,
                      "Expected Value: identifier, int, float, '+', '-' or '('"))

atom(toks, P) ==
    CASE is_type(P.cur_tok, {"INT", "FLOAT"}) ->
           success(adv(toks, ParseResult(P)), NumberNode(P.cur_tok))
      [] is_type(P.cur_tok, {"LITERAL"}) ->
           success(adv(toks, ParseResult(P)), LiteralNode(P.cur_tok))
      [] is_type(P.cur_tok, {"L_PAREN"}) -> atom_paren(toks, P)
      [] is_type(P.cur_tok, {"IDENTIFIER"}) ->
           success(adv(toks, ParseResult(P)), VarAccessNode(P.cur_tok))
      [] is_equals(P.cur_tok, "KW", "if") -> atom_sub(production("if_expr", toks, P), P)
      [] is_equals(P.cur_tok, "KW", "fun") -> atom_sub(production("func_def", toks, P), P)
      [] OTHER -> failure(ParseResult(P), InvalidSyntaxError(P.cur_tok,
                      "Expected Value: identifier, int, float, '+', '-' or '('"))

\* the unary alternative of factor
factor_unary(toks, P) ==
    LET sub == production("factor", toks, advance(toks, P))
        res2 == register(register_adv(ParseResult(P)), sub)
    IN IF sub.error # None THEN res2
       ELSE success(res2, UnaryOpNode(P.cur_tok, sub.node))

factor(toks, P) ==
    IF is_type(P.cur_tok, {"PLUS", "MINUS"}) THEN factor_unary(toks, P)
    ELSE power(toks, P)

term(toks, P) == bin_oper("factor", MulDiv, "factor", toks, P)

\* power without func_right: bin_oper(self.call, (t.POW,))
power_without_func_right(toks, P) == bin_oper("call", Pow, "call", toks, P)

power(toks, P) == bin_oper("call", Pow, "factor", toks, P)

arith_expr(toks, P) == bin_oper("term", PlusMinus, "term", toks, P)

\* the `not` alternative of comp_expr
comp_expr_not(toks, P) ==
    LET sub == production("comp_expr", toks, advance(toks, P))
        res2 == register(register_adv(ParseResult(P)), sub)
    IN IF sub.error # None THEN res2
       ELSE success(res2, UnaryOpNode(P.cur_tok, sub.node))

\* the comparison alternative of comp_expr
comp_expr_bin(toks, P) ==
    LET sub == bin_oper("arith_expr", Comparisons, "arith_expr", toks, P)
    IN IF sub.error # None THEN register(ParseResult(P), sub)
       ELSE success(register(ParseResult(P), sub), sub.node)

comp_expr(toks, P) ==
    IF is_equals(P.cur_tok, "KW", "not") THEN comp_expr_not(toks, P)
    ELSE comp_expr_bin(toks, P)

\* if_expr after `else`: the else branch
if_expr_else(toks, res5, cond, then_expr) ==
    LET sub3 == production("expr", toks, res5.P)
    IN IF sub3.error # None THEN register(res5, sub3)
       ELSE success(register(res5, sub3),
                    IfBlockNode(<<cond, then_expr>>, sub3.node))

\* if_expr after `then`: the then branch and the `else` keyword
if_expr_then(toks, res3, cond) ==
    LET sub2 == production("expr", toks, res3.P)
        res4 == register(res3, sub2)
    IN CASE sub2.error # None -> res4
         [] sub2.error = None /\ ~is_equals(sub2.P.cur_tok, "KW", "else") ->
              failure(res4, InvalidSyntaxError(res4.P.cur_tok, "Expected 'else'"))
         [] OTHER -> if_expr_else(toks, adv(toks, res4), cond, sub2.node)

if_expr(toks, P) ==
    LET res1 == adv(toks, ParseResult(P))
        sub1 == production("comp_expr", toks, res1.P)
        res2 == register(res1, sub1)
    IN CASE sub1.error # None -> res2
         [] sub1.error = None /\ ~is_equals(sub1.P.cur_tok, "KW", "then") ->
              failure(res2, InvalidSyntaxError(res2.P.cur_tok, "Expected 'then'"))
         [] OTHER -> if_expr_then(toks, adv(toks, res2), sub1.node)

\* the parameter loop of func_def: `while self.cur_tok.is_type(t.COMMA)`
func_def_params(res, parameters, toks) ==
    IF is_type(res.P.cur_tok, {"COMMA"})
    THEN LET res1 == adv(toks, res)
         IN IF is_type(res1.P.cur_tok, {"IDENTIFIER"})
            THEN func_def_params(adv(toks, res1), Append(parameters, res1.P.cur_tok), toks)
            ELSE IF is_type(res1.P.cur_tok, {"R_PAREN"})
            THEN [res |-> res1, parameters |-> parameters, done |-> FALSE]
            ELSE [res |-> failure(res1, InvalidSyntaxError(res1.P.cur_tok, "Expected ',' or ')'")),
                  parameters |-> parameters, done |-> TRUE]
    ELSE [res |-> res, parameters |-> parameters, done |-> FALSE]

\* func_def after `:`: the body
func_def_body(toks, res5, name, parameters, pos_start) ==
    LET sub == production("expr", toks, res5.P)
    IN IF sub.error # None THEN register(res5, sub)
       ELSE success(register(res5, sub),
                    FuncDefNode(name, parameters, sub.node, pos_start, sub.node.pos_end))

func_def(toks, P) ==
    LET res0 == register_adv(ParseResult(P))
        pos_start == P.cur_tok.pos_start
        res1 == adv(toks, res0)
        named == is_type(res1.P.cur_tok, {"IDENTIFIER"})
        name == IF named THEN res1.P.cur_tok.value ELSE ""
        res2 == IF named THEN adv(toks, res1) ELSE res1
        res3 == adv(toks, res2)
        l == IF is_type(res3.P.cur_tok, {"IDENTIFIER"})
             THEN func_def_params(adv(toks, res3), <<res3.P.cur_tok>>, toks)
             ELSE [res |-> res3, parameters |-> <<>>, done |-> FALSE]
        res4 == adv(toks, l.res)
    IN CASE ~is_type(res2.P.cur_tok, {"L_PAREN"}) ->
              failure(res2, InvalidSyntaxError(res2.P.cur_tok,
                  IF name # "" THEN "Expected '('" ELSE "Expected Identifier or '('"))
         [] is_type(res2.P.cur_tok, {"L_PAREN"}) /\ l.done -> l.res
         [] is_type(res2.P.cur_tok, {"L_PAREN"}) /\ ~l.done
              /\ ~is_type(l.res.P.cur_tok, {"R_PAREN"}) ->
              failure(l.res, InvalidSyntaxError(l.res.P.cur_tok, "Invalid Syntax"))
         [] is_type(res2.P.cur_tok, {"L_PAREN"}) /\ ~l.done
              /\ is_type(l.res.P.cur_tok, {"R_PAREN"})
              /\ ~is_type(res4.P.cur_tok, {"COLON"}) ->
              failure(res4, InvalidSyntaxError(res4.P.cur_tok, "Expected ':'"))
         [] OTHER -> func_def_body(toks, adv(toks, res4), name, l.parameters, pos_start)

\* Parser.parse
parse(toks) ==
    LET res == production("expr", toks, Parser(toks))
    IN IF res.error = None /\ ~is_type(res.P.cur_tok, {"EOF", "NEWLINE"})
       THEN failure(res, InvalidSyntaxError(res.P.cur_tok, "Invalid Syntax"))
       ELSE res

\* make_ast: (res.node, res.error); the third and fourth component are
\* parser.cur_index and the history of the recorded errors
make_ast(toks) ==
    LET res == parse(toks)
    IN <<res.node, res.error, res.P.cur_index, res.P.failures>>

(***************************************************************************)
(* interpreter.py: values.  A Number's value is the rational <<n, d>>      *)
(* (d > 0, lowest terms): ints and the floats that / and ^ produce, float  *)
(* rounding apart.  A Bool's value is a BOOLEAN.  A Function's context is  *)
(* the heap index of the SymbolMap of the Context it was defined in.       *)
(***************************************************************************)
Abs(i) == IF i < 0 THEN -i ELSE i

RECURSIVE Gcd(_, _)
Gcd(a, b) == IF b = 0 THEN a ELSE Gcd(b, a % b)

\* the rational n/d in lowest terms with a positive denominator
Rat(n, d) ==
    LET g == Gcd(Abs(n), Abs(d))
        sgn == IF d < 0 THEN -1 ELSE 1
    IN <<sgn * (n \div g), sgn * (d \div g)>>

Number(value) == [type_name |-> "Number", value |-> value]

\* Number(i) for a Python int i
IntNumber(i) == Number(<<i, 1>>)

\* Bool.__init__: self.value = bool(value)
Bool(value) == [type_name |-> "Bool", value |-> value]

\* Function(name, parameters, body).set_context(context).  defined_in is a
\* history field: the scope visit_FuncDefNode ran in, which no code writes
Function(name, parameters, body, context) ==
    [type_name |-> "Function", name |-> name, parameters |-> parameters,
     n_parameters |-> Len(parameters), body |-> body, context |-> context,
     defined_in |-> context]

\* RTError(pos_start, pos_end, details, context): the message, in two parts
RTError(details, subject) ==
    [cls |-> "RTError", details |-> details, subject |-> subject]

\* the (result, error) pair an operator method returns; raised names the
\* host exception when the method raises instead of returning
Pair(r, e) == [result |-> r, error |-> e, raised |-> ""]
Raised(name) == [result |-> None, error |-> None, raised |-> name]

\* Object.not_supported, as returned by the Object operator methods
not_supported(self, w, other) ==
    Pair(None, RTError("does not support", w))

\* __bool__ of a value: Bool.__bool__, Number.__bool__, object default
truth(v) ==
    CASE v.type_name = "Bool" -> v.value
      [] v.type_name = "Number" -> v.value[1] # 0
      [] OTHER -> TRUE

\* int(x) # 0 for a Number value x: int() truncates towards zero
IntTruth(x) == Abs(x[1]) >= x[2]

\* is_truthy(): a Bool
is_truthy(v) ==
    CASE v.type_name = "Bool" -> Bool(v.value)
      [] v.type_name = "Number" -> Bool(v.value[1] # 0)
      [] OTHER -> Bool(TRUE)

RECURSIVE IntPow(_, _)
IntPow(b, e) == IF e = 0 THEN 1 ELSE b * IntPow(b, e - 1)

\* self.value ** other.value
PyPow(a, b) ==
    CASE b[2] # 1 -> Raised("Unmodelled")  \* a non-integer exponent
      [] b[2] = 1 /\ b[1] >= 0 ->
           Pair(Number(Rat(IntPow(a[1], b[1]), IntPow(a[2], b[1]))), None)
      [] b[2] = 1 /\ b[1] < 0 /\ a[1] = 0 -> Raised("ZeroDivisionError")
      [] OTHER -> Pair(Number(Rat(IntPow(a[2], -b[1]), IntPow(a[1], -b[1]))), None)

\* the Number operator methods, for self and other both Numbers
NumberOp(op, a, b) ==
    CASE op = "PLUS" -> Pair(Number(Rat(a[1] * b[2] + b[1] * a[2], a[2] * b[2])), None)
      [] op = "MINUS" -> Pair(Number(Rat(a[1] * b[2] - b[1] * a[2], a[2] * b[2])), None)
      [] op = "MUL" -> Pair(Number(Rat(a[1] * b[1], a[2] * b[2])), None)
      [] op = "DIV" -> IF b[1] = 0 THEN Pair(None, RTError("Division by Zero", ""))
                       ELSE Pair(Number(Rat(a[1] * b[2], a[2] * b[1])), None)
      [] op = "POW" -> PyPow(a, b)
      [] op = "EE" -> Pair(Bool(a = b), None)
      [] op = "NE" -> Pair(Bool(a # b), None)
      [] op = "LT" -> Pair(Bool(a[1] * b[2] < b[1] * a[2]), None)
      [] op = "GT" -> Pair(Bool(a[1] * b[2] > b[1] * a[2]), None)
      [] op = "LTE" -> Pair(Bool(a[1] * b[2] <= b[1] * a[2]), None)
      [] op = "GTE" -> Pair(Bool(a[1] * b[2] >= b[1] * a[2]), None)
      [] op = "and" -> Pair(Bool(IF a[1] = 0 THEN FALSE ELSE IntTruth(b)), None)
      [] op = "or" -> Pair(Bool(IF a[1] # 0 THEN IntTruth(a) ELSE IntTruth(b)), None)

\* what each operator is called in a not-supported message
what(op) ==
    CASE op = "PLUS" -> "+ operator" [] op = "MINUS" -> "- operator"
      [] op = "MUL" -> "* operator" [] op = "DIV" -> "/ operator"
      [] op = "POW" -> "^ operator" [] op = "EE" -> "== operator"
      [] op = "NE" -> "!= operator" [] op = "LT" -> "< operator"
      [] op = "GT" -> "> operator" [] op = "LTE" -> "<= operator"
      [] op = "GTE" -> ">= operator" [] op = "and" -> "'and' logic"
      [] op = "or" -> "'or' logic"

\* Bool.logic_and: Bool(self.value and other.value); other.value is read
\* only when self.value is true, and a Function has no attribute value
Bool_logic_and(self, other) ==
    CASE ~self.value -> Pair(Bool(FALSE), None)
      [] self.value /\ other.type_name = "Function" -> Raised("AttributeError")
      [] OTHER -> Pair(Bool(truth(other)), None)

\* Bool.logic_or: Bool(self.value or other.value)
Bool_logic_or(self, other) ==
    CASE self.value -> Pair(Bool(TRUE), None)
      [] ~self.value /\ other.type_name = "Function" -> Raised("AttributeError")
      [] OTHER -> Pair(Bool(truth(other)), None)

\* left.operate_xxx(right) / compare_xxx / logic_xxx as dispatched by
\* visit_BinOpNode on the operator op
operate(op, left, right) ==
    CASE left.type_name = "Number" /\ right.type_name = "Number" ->
           NumberOp(op, left.value, right.value)
      [] left.type_name = "Bool" /\ op = "and" -> Bool_logic_and(left, right)
      [] left.type_name = "Bool" /\ op = "or" -> Bool_logic_or(left, right)
      [] OTHER -> not_supported(left, what(op), right)

\* value.logic_not() as unpacked by visit_UnaryOpNode: Bool.logic_not
\* returns a bare Bool, which `number, error = ...` cannot unpack
logic_not(self) ==
    CASE self.type_name = "Number" -> Pair(Bool(self.value[1] = 0), None)
      [] self.type_name = "Bool" -> Raised("TypeError")
      [] OTHER -> not_supported(self, "'not' logic", self)

(***************************************************************************)
(* interpreter.py: SymbolMap.  The heap is the sequence of the SymbolMap   *)
(* objects ever created; parent 0 is None.                                 *)
(***************************************************************************)
SymbolMap(parent) == [symbol_map |-> <<>>, parent |-> parent]

\* the dict symbol_map is a function from the bound names to their values
Bound(m) == DOMAIN m.symbol_map

RECURSIVE SymbolMap_get(_, _, _)
SymbolMap_get(h, id, var_name) ==
    LET value == IF var_name \in Bound(h[id]) THEN h[id].symbol_map[var_name] ELSE None
    IN IF value = None /\ h[id].parent # 0
       THEN SymbolMap_get(h, h[id].parent, var_name)
       ELSE value

SymbolMap_set(h, id, var_name, value) ==
    [h EXCEPT ![id].symbol_map =
        [n \in Bound(h[id]) \cup {var_name} |->
            IF n = var_name THEN value ELSE h[id].symbol_map[n]]]

GLOBAL_SYMBOL_MAP == 1

(***************************************************************************)
(* interpreter.py: RTResult and Interpreter.  A result carries the heap    *)
(* and the trace after the visit; raised names a host exception that       *)
(* unwinds the visit ("" when there is none).                              *)
(***************************************************************************)
MaxDepth == 4

RTResult(st) ==
    [value |-> None, error |-> None, raised |-> "", heap |-> st.heap, trace |-> st.trace]

RT_success(res, value) == [res EXCEPT !.value = value]
\* RTResult.failure; the trace records the error and the scopes as they
\* are when it is raised
RT_failure(res, err) ==
    [res EXCEPT !.error = err,
                !.trace = Append(@, [ev |-> "error", error |-> err, heap |-> res.heap])]
Raise(res, name) == [res EXCEPT !.raised = name]

\* `if res.error: return res`, or an exception unwinding through the caller
Stops(res) == res.raised # "" \/ res.error # None

Log(st, ev) == [st EXCEPT !.trace = Append(@, ev)]

RECURSIVE visit(_, _, _, _)
RECURSIVE visit_arguments(_, _, _, _, _, _)

visit_NumberNode(n, context, st) ==
    RT_success(RTResult(st), IntNumber(n.tok.num))

visit_LiteralNode(n, context, st) ==
    CASE n.tok.value = "true" -> RT_success(RTResult(st), Bool(TRUE))
      [] n.tok.value = "false" -> RT_success(RTResult(st), Bool(FALSE))
      [] OTHER -> Raise(RTResult(st), "AttributeError")  \* visit returned None

\* the trace records the value read and the scopes as they are then
visit_VarAccessNode(n, context, st) ==
    LET var_name == n.var_name.value
        value == SymbolMap_get(st.heap, context, var_name)
    IN IF value = None \/ ~truth(value)     \* `if not value`
       THEN RT_failure(RTResult(st), RTError("not defined", var_name))
       ELSE RT_success(RTResult(Log(st, [ev |-> "read", var_name |-> var_name,
                                         value |-> value, scope |-> context,
                                         heap |-> st.heap])),
                       value)

\* visit_VarAssignNode that sets the name in GLOBAL_SYMBOL_MAP
visit_VarAssignNode_global(n, context, st, d) ==
    LET sub == visit(n.value, context, st, d)
    IN IF Stops(sub) THEN sub
       ELSE [sub EXCEPT !.heap = SymbolMap_set(sub.heap, GLOBAL_SYMBOL_MAP,
                                               n.var_name.value, sub.value)]

visit_VarAssignNode(n, context, st, d) ==
    LET sub == visit(n.value, context, st, d)
    IN IF Stops(sub) THEN sub
       ELSE [sub EXCEPT !.heap = SymbolMap_set(sub.heap, context, n.var_name.value, sub.value)]

\* the operator name visit_BinOpNode dispatches on
oper_name(oper) == IF oper.type_ = "KW" THEN oper.value ELSE oper.type_

\* visit_BinOpNode once both operands are evaluated (r is the right one)
BinOp_apply(n, left, r) ==
    LET o == operate(oper_name(n.oper), left, r.value)
    IN CASE o.raised # "" -> Raise(RT_success(r, None), o.raised)
         [] o.raised = "" /\ o.error # None -> RT_failure(RT_success(r, None), o.error)
         [] OTHER -> RT_success(r, o.result)

visit_BinOp_right(n, context, l, d) ==
    LET r == visit(n.right, context, l, d)
    IN IF Stops(r) THEN r ELSE BinOp_apply(n, l.value, r)

\* visit_BinOpNode without `if res.error: return res` after the left operand
visit_BinOpNode_unchecked(n, context, st, d) ==
    LET l == visit(n.left, context, st, d)
        r == visit(n.right, context, l, d)
    IN CASE l.raised # "" -> l
         [] l.raised = "" /\ l.error # None -> [r EXCEPT !.error = l.error, !.value = None]
         [] OTHER -> visit_BinOp_right(n, context, l, d)

visit_BinOpNode(n, context, st, d) ==
    LET l == visit(n.left, context, st, d)
    IN IF Stops(l) THEN l ELSE visit_BinOp_right(n, context, l, d)

visit_UnaryOpNode(n, context, st, d) ==
    LET sub == visit(n.node, context, st, d)
        o == CASE n.oper.type_ = "MINUS" -> operate("MUL", sub.value, IntNumber(-1))
               [] is_equals(n.oper, "KW", "not") -> logic_not(sub.value)
               [] OTHER -> Pair(sub.value, None)
    IN CASE Stops(sub) -> sub
         [] ~Stops(sub) /\ o.raised # "" -> Raise(RT_success(sub, None), o.raised)
         [] ~Stops(sub) /\ o.raised = "" /\ o.error # None ->
              RT_failure(RT_success(sub, None), o.error)
         [] OTHER -> RT_success(sub, o.result)

\* visit_IfBlockNode that evaluates both branches and then chooses
visit_IfBlockNode_both(n, context, st, d) ==
    LET cond == visit(n.case[1], context, st, d)
        chosen == Log(cond, [ev |-> "cond", node |-> n, value |-> cond.value,
                             scope |-> context])
        a == visit(n.case[2], context, chosen, d)
        b == visit(n.else_expr, context, a, d)
    IN CASE Stops(cond) -> cond
         [] ~Stops(cond) /\ Stops(a) -> a
         [] ~Stops(cond) /\ ~Stops(a) /\ Stops(b) -> b
         [] ~Stops(cond) /\ ~Stops(a) /\ ~Stops(b) /\ truth(is_truthy(cond.value)) ->
              RT_success(b, a.value)
         [] OTHER -> b

\* the trace records the condition's value where the branch is chosen
visit_IfBlockNode(n, context, st, d) ==
    LET cond == visit(n.case[1], context, st, d)
        chosen == Log(cond, [ev |-> "cond", node |-> n, value |-> cond.value,
                             scope |-> context])
    IN CASE Stops(cond) -> cond
         [] ~Stops(cond) /\ truth(is_truthy(cond.value)) ->
              visit(n.case[2], context, chosen, d)
         [] OTHER -> visit(n.else_expr, context, chosen, d)

visit_FuncDefNode(n, context, st) ==
    LET func == Function(n.name, n.parameters, n.body, context)
    IN [RT_success(RTResult(st), func) EXCEPT
           !.heap = SymbolMap_set(st.heap, context, n.name, func)]

RECURSIVE set_parameters(_, _, _, _, _)
\* the loop of Function.execute with `arg = args[0]`: every parameter is
\* bound to the first argument
set_parameters_first_arg(h, id, parameters, args, i) ==
    IF i > Len(parameters) THEN h
    ELSE set_parameters(SymbolMap_set(h, id, parameters[i].value, args[1]),
                        id, parameters, args, i + 1)

\* the loop of Function.execute that binds parameters[i] to args[i]
set_parameters(h, id, parameters, args, i) ==
    IF i > Len(parameters) THEN h
    ELSE set_parameters(SymbolMap_set(h, id, parameters[i].value, args[i]),
                        id, parameters, args, i + 1)

\* Function.execute; d counts the calls in progress (the host stack).  The
\* trace records the call: the function, the arguments, the new scope and
\* what that scope binds when the body starts
Function_execute(self, args, st, d) ==
    LET id == Len(st.heap) + 1
        h1 == Append(st.heap, SymbolMap(self.context))
        h2 == set_parameters(h1, id, self.parameters, args, 1)
        ev == [ev |-> "execute", func |-> self, args |-> args, scope |-> id,
               bound |-> IF self.n_parameters = Len(args)
                         THEN h2[id].symbol_map ELSE h1[id].symbol_map]
    IN CASE self.n_parameters # Len(args) ->
              RT_failure(RTResult(Log([st EXCEPT !.heap = h1],
                                      [ev EXCEPT !.ev = "mismatch"])),
                         RTError(IF Len(args) > self.n_parameters
                                 THEN "Too many arguments" ELSE "Not enough arguments",
                                 self.name))
         [] self.n_parameters = Len(args) /\ d >= MaxDepth ->
              Raise(RTResult(Log([st EXCEPT !.heap = h2], ev)), "RecursionError")
         [] OTHER -> visit(self.body, id, Log([st EXCEPT !.heap = h2], ev), d + 1)

\* the argument loop of visit_FuncCallNode, from the i-th argument on
visit_arguments(n, context, st, args, i, d) ==
    IF i > Len(n.arguments) THEN [res |-> RTResult(st), args |-> args]
    ELSE LET sub == visit(n.arguments[i], context, st, d)
         IN IF Stops(sub) THEN [res |-> sub, args |-> args]
            ELSE visit_arguments(n, context, sub, Append(args, sub.value), i + 1, d)

\* visit_FuncCallNode with `value_to_call.copy().set_context(context)`: the
\* callee runs in a scope whose parent is the caller's scope
FuncCall_execute_in_caller(n, context, callee, d) ==
    LET a == visit_arguments(n, context, callee, <<>>, 1, d)
    IN CASE Stops(a.res) -> a.res
         [] ~Stops(a.res) /\ callee.value.type_name # "Function" ->
              Raise(a.res, "AttributeError")
         [] OTHER -> Function_execute([callee.value EXCEPT !.context = context],
                                      a.args, a.res, d)

\* visit_FuncCallNode once the callee is evaluated
FuncCall_execute(n, context, callee, d) ==
    LET a == visit_arguments(n, context, callee, <<>>, 1, d)
    IN CASE Stops(a.res) -> a.res
         [] ~Stops(a.res) /\ callee.value.type_name # "Function" ->
              Raise(a.res, "AttributeError")     \* no attribute execute
         [] OTHER -> Function_execute(callee.value, a.args, a.res, d)

visit_FuncCallNode(n, context, st, d) ==
    LET callee == visit(n.node_to_call, context, st, d)
    IN IF Stops(callee) THEN callee ELSE FuncCall_execute(n, context, callee, d)

\* Interpreter.visit: dispatch on the node's class
visit(n, context, st0, d) ==
    LET st == Log(st0, [ev |-> "visit", node |-> n, scope |-> context])
    IN CASE n.cls = "NumberNode" -> visit_NumberNode(n, context, st)
         [] n.cls = "LiteralNode" -> visit_LiteralNode(n, context, st)
         [] n.cls = "VarAccessNode" -> visit_VarAccessNode(n, context, st)
         [] n.cls = "VarAssignNode" -> visit_VarAssignNode(n, context, st, d)
         [] n.cls = "BinOpNode" -> visit_BinOpNode(n, context, st, d)
         [] n.cls = "UnaryOpNode" -> visit_UnaryOpNode(n, context, st, d)
         [] n.cls = "IfBlockNode" -> visit_IfBlockNode(n, context, st, d)
         [] n.cls = "FuncDefNode" -> visit_FuncDefNode(n, context, st)
         [] n.cls = "FuncCallNode" -> visit_FuncCallNode(n, context, st, d)
         [] OTHER -> Raise(RTResult(st), "Exception")   \* no_visit_method

\* interpret(node, context) with context = Context("<module>", GLOBAL_SYMBOL_MAP)
interpret(n, h) == visit(n, GLOBAL_SYMBOL_MAP, [heap |-> h, trace |-> <<>>], 0)

(***************************************************************************)
(* Inputs: token streams                                                   *)
(***************************************************************************)
INT(n) == Tok("INT", "", n)
IDENTIFIER(s) == Tok("IDENTIFIER", s, 0)
KW(s) == Tok("KW", s, 0)
LITERAL(s) == Tok("LITERAL", s, 0)
OP(type_) == Tok(type_, "", 0)
EOF == Tok("EOF", "", 0)

MaxLen == 3
MaxArithLen == 5

\* the tokens short streams are made of
Alphabet ==
    {INT(1), IDENTIFIER("x"), KW("let"), KW("if"), KW("fun"), KW("not"),
     KW("and"), OP("PLUS"), OP("POW"), OP("EQ"), OP("L_PAREN"), OP("R_PAREN"),
     OP("COMMA"), OP("NEWLINE")}

\* the tokens of arithmetic expressions
ArithAlphabet ==
    {INT(2), OP("PLUS"), OP("MINUS"), OP("MUL"), OP("DIV"), OP("POW"),
     OP("L_PAREN"), OP("R_PAREN")}

SeqsUpTo(S, n) == UNION {[1..k -> S] : k \in 0..n}

ShortStreams == SeqsUpTo(Alphabet, MaxLen)
ArithStreams == SeqsUpTo(ArithAlphabet, MaxArithLen)


(***************************************************************************)
(* Inputs: programs, as the token streams the tokenizer makes of them      *)
(***************************************************************************)
MaxRuns == 3

Id(s) == <<IDENTIFIER(s)>>
Num(n) == <<INT(n)>>
Lit(s) == <<LITERAL(s)>>
Op(type_) == <<OP(type_)>>
Kw(s) == <<KW(s)>>
Paren(e) == Op("L_PAREN") \o e \o Op("R_PAREN")
Let(x, e) == Kw("let") \o Id(x) \o Op("EQ") \o e
Bin(a, op, b) == a \o op \o b
If(c, a, b) == Kw("if") \o c \o Kw("then") \o a \o Kw("else") \o b

RECURSIVE Commas(_)
Commas(es) ==
    IF es = <<>> THEN <<>>
    ELSE IF Len(es) = 1 THEN es[1]
    ELSE es[1] \o Op("COMMA") \o Commas(Tail(es))

Call(f, es) == f \o Paren(Commas(es))
Fun(name, ps, body) == Kw("fun") \o name \o Paren(Commas(ps)) \o Op("COLON") \o body

\* let x = c for a few values c, and reads of x and of the never-bound y
Bindings ==
    {Let("x", c) : c \in {Num(0), Num(5), Lit("false"), Lit("true")}}
    \cup {Id("x"), Id("y"), Bin(Id("x"), Op("PLUS"), Num(1))}

\* fun add(a, b): a + b and calls of it with 1, 2 and 3 arguments, and
\* calls whose callee or first argument is the never-bound y;
\* fun dup(a, a): a and a call of it
Arity ==
    {Fun(Id("add"), <<Id("a"), Id("b")>>, Bin(Id("a"), Op("PLUS"), Id("b"))),
     Call(Id("add"), <<Num(2)>>),
     Call(Id("add"), <<Num(2), Num(3)>>),
     Call(Id("add"), <<Num(2), Num(3), Num(4)>>),
     Call(Id("add"), <<Id("y"), Paren(Let("v", Num(1)))>>),
     Call(Id("y"), <<Paren(Let("v", Num(1)))>>),
     Fun(Id("dup"), <<Id("a"), Id("a")>>, Id("a")),
     Call(Id("dup"), <<Num(1), Num(2)>>)}

\* fun make(x): fun(y): x + y, applied in two runs and in one;
\* fun g(): z called from fun h(z): g() and passed to fun k(f, z): f();
\* the anonymous fun(y): y; fun o(x): (fun rd(q): x)(let x = 7), which
\* makes rd, assigns x anew and then calls rd, and fun p likewise with 0
Closures ==
    {Fun(Id("make"), <<Id("x")>>, Fun(<<>>, <<Id("y")>>, Bin(Id("x"), Op("PLUS"), Id("y")))),
     Let("inc", Call(Id("make"), <<Num(10)>>)),
     Call(Id("inc"), <<Num(5)>>),
     Call(Paren(Call(Id("make"), <<Num(10)>>)), <<Num(5)>>),
     Fun(Id("g"), <<>>, Id("z")),
     Fun(Id("h"), <<Id("z")>>, Call(Id("g"), <<>>)),
     Call(Id("h"), <<Num(1)>>),
     Fun(Id("k"), <<Id("f"), Id("z")>>, Call(Id("f"), <<>>)),
     Call(Id("k"), <<Id("g"), Num(1)>>),
     Fun(<<>>, <<Id("y")>>, Id("y")),
     Fun(Id("o"), <<Id("x")>>,
         Call(Paren(Fun(Id("rd"), <<Id("q")>>, Id("x"))), <<Let("x", Num(7))>>)),
     Call(Id("o"), <<Num(1)>>),
     Fun(Id("p"), <<Id("x")>>,
         Call(Paren(Fun(Id("rd"), <<Id("q")>>, Id("x"))), <<Let("x", Num(0))>>)),
     Call(Id("p"), <<Num(1)>>)}

\* if-expressions whose untaken branch would fail or bind
Conditionals ==
    {If(Bin(Num(1), Op("LT"), Num(2)), Num(10), Id("q")),
     If(Num(0), Paren(Let("w", Num(1))), Num(20)),
     If(Lit("true"), Paren(Let("w", Num(1))), Id("q")),
     If(Id("add"), Num(1), Num(2)),
     Bin(Num(1), Op("PLUS"), If(Lit("true"), Num(2), Num(3))),
     Id("w")}

\* operand combinations of the operator methods
Operators ==
    {Kw("not") \o Lit("true"),
     Kw("not") \o Num(0),
     Bin(Lit("true"), Kw("and"), Id("add")),
     Call(Num(5), <<Num(1)>>),
     Bin(Num(2), Op("PLUS"), Bin(Num(3), Op("MUL"), Num(4))),
     Bin(Num(1), Op("DIV"), Num(0)),
     Bin(Num(1), Op("PLUS"), Lit("true")),
     Num(1) \o Num(2)}

Programs == Bindings \cup Arity \cup Closures \cup Conditionals \cup Operators

\* the streams make_ast is given: each ends in the end-of-input token
TokenStreams ==
    {WithPos(Append(ts, EOF)) : ts \in ShortStreams \cup ArithStreams \cup Programs}

(***************************************************************************)
(* Specification of the parser alone: one make_ast call on any stream      *)
(***************************************************************************)
InitParse ==
    /\ tokens \in TokenStreams
    /\ pc = "start"
    /\ node = None
    /\ error = None
    /\ cur_index = 0
    /\ failures = <<>>
    /\ heap = <<>>
    /\ result = None
    /\ trace = <<>>
    /\ runs = 0

\* node, error = make_ast(tokens)
returned(ast) ==
    /\ node' = ast[1]
    /\ error' = ast[2]
    /\ cur_index' = ast[3]
    /\ failures' = ast[4]

MakeAst ==
    /\ pc = "start"
    /\ returned(make_ast(tokens))
    /\ pc' = "parsed"
    /\ UNCHANGED <<tokens, heap, result, trace, runs>>

NextParse == MakeAst

SpecParse == InitParse /\ [][NextParse]_vars

(***************************************************************************)
(* Specification of the whole pipeline: a sequence of run() calls on the   *)
(* process-wide GLOBAL_SYMBOL_MAP                                          *)
(***************************************************************************)
Init ==
    /\ tokens = <<>>
    /\ pc = "idle"
    /\ node = None
    /\ error = None
    /\ cur_index = 0
    /\ failures = <<>>
    /\ heap = <<SymbolMap(0)>>
    /\ result = None
    /\ trace = <<>>
    /\ runs = 0

\* what run returns (value, error), or the host exception it lets through
Outcome(value, err, raised) ==
    [cls |-> "Outcome", value |-> value, error |-> err, raised |-> raised]

\* run after make_ast returned a parse error: (None, parse_error)
run_parse_error(ast) ==
    /\ result' = Outcome(None, ast[2], "")
    /\ UNCHANGED heap
    /\ trace' = <<>>

\* run after interpret returned res
run_interpreted(res) ==
    /\ result' = Outcome(IF res.error # None THEN None ELSE res.value,
                         res.error, res.raised)
    /\ heap' = res.heap
    /\ trace' = res.trace

\* run after make_ast returned ast
run_parsed(ast) ==
    /\ returned(ast)
    /\ IF ast[2] # None THEN run_parse_error(ast)
       ELSE run_interpreted(interpret(ast[1], heap))

\* run(file_name, text), from the tokens toks of text on
run(toks) ==
    /\ runs < MaxRuns
    /\ tokens' = toks
    /\ run_parsed(make_ast(toks))
    /\ runs' = runs + 1
    /\ pc' = "ran"

Next == \E ts \in Programs : run(WithPos(Append(ts, EOF)))

Spec == Init /\ [][Next]_vars

(***************************************************************************)
(* Properties of Parser.parse / make_ast (SpecParse)                       *)
(***************************************************************************)
\* C1: make_ast returns exactly one of node and error non-null: a node and
\* no error on success, no node and an error on failure
C1_ExactlyOneOfNodeAndError ==
    pc = "parsed" => ((node # None) # (error # None))

\* C2: parse succeeds only if nothing but the end-of-input token, or a
\* newline token followed by the end-of-input token, is left unconsumed
C2_WholeStreamConsumed ==
    (pc = "parsed" /\ error = None) =>
        \/ cur_index = Len(tokens)
        \/ cur_index = Len(tokens) - 1 /\ is_type(tokens[cur_index], {"NEWLINE"})

\* the tokens of ts in front of the end-of-input token are numbers,
\* + - * / ^ and parentheses, and no parenthesis opens a call
arithmetic(ts) ==
    /\ \A k \in 1..(Len(ts) - 1) :
          ts[k].type_ \in {"INT", "PLUS", "MINUS", "MUL", "DIV", "POW",
                           "L_PAREN", "R_PAREN"}
    /\ \A k \in 2..(Len(ts) - 1) :
          ts[k].type_ = "L_PAREN" => ts[k - 1].type_ \notin {"INT", "R_PAREN"}

\* the number of parentheses open in front of the k-th token of ts
RECURSIVE depth(_, _)
depth(ts, k) ==
    IF k <= 1 THEN 0
    ELSE depth(ts, k - 1) + (CASE ts[k - 1].type_ = "L_PAREN" -> 1
                               [] ts[k - 1].type_ = "R_PAREN" -> -1
                               [] OTHER -> 0)

\* where ts has a binary operator of the types ops outside all parentheses
binary(ts, ops) ==
    {k \in 2..Len(ts) : /\ ts[k].type_ \in ops
                        /\ ts[k - 1].type_ \in {"INT", "R_PAREN"}
                        /\ depth(ts, k) = 0}

Last(S) == CHOOSE k \in S : \A j \in S : j <= k
First(S) == CHOOSE k \in S : \A j \in S : k <= j

\* how precedence groups the operands of the arithmetic expression ts:
\* split at the last + or -, else at the last * or /, else take a sign,
\* else split at the first ^, else open the parentheses
RECURSIVE grouping(_)
split(ts, k) ==
    <<"BinOpNode", ts[k].type_, grouping(SubSeq(ts, 1, k - 1)),
      grouping(SubSeq(ts, k + 1, Len(ts)))>>

grouping(ts) ==
    CASE binary(ts, {"PLUS", "MINUS"}) # {} -> split(ts, Last(binary(ts, {"PLUS", "MINUS"})))
      [] binary(ts, {"PLUS", "MINUS"}) = {} /\ binary(ts, {"MUL", "DIV"}) # {} ->
           split(ts, Last(binary(ts, {"MUL", "DIV"})))
      [] binary(ts, {"PLUS", "MINUS", "MUL", "DIV"}) = {}
           /\ ts[1].type_ \in {"PLUS", "MINUS"} ->
           <<"UnaryOpNode", ts[1].type_, grouping(Tail(ts))>>
      [] binary(ts, {"PLUS", "MINUS", "MUL", "DIV"}) = {}
           /\ ts[1].type_ \notin {"PLUS", "MINUS"} /\ binary(ts, {"POW"}) # {} ->
           split(ts, First(binary(ts, {"POW"})))
      [] binary(ts, {"PLUS", "MINUS", "MUL", "DIV", "POW"}) = {}
           /\ ts[1].type_ = "L_PAREN" -> grouping(SubSeq(ts, 2, Len(ts) - 1))
      [] OTHER -> <<"NumberNode", ts[1].num>>

\* the operators and operands of the node n, without the positions
RECURSIVE shape(_)
shape(n) ==
    CASE n.cls = "BinOpNode" -> <<"BinOpNode", n.oper.type_, shape(n.left), shape(n.right)>>
      [] n.cls = "UnaryOpNode" -> <<"UnaryOpNode", n.oper.type_, shape(n.node)>>
      [] n.cls = "NumberNode" -> <<"NumberNode", n.tok.num>>
      [] OTHER -> <<n.cls>>

\* C8: the AST of a valid arithmetic expression groups the operands by
\* precedence: + and - loosest and left-associative, then * and /,
\* left-associative, then the signs, then ^, right-associative with an
\* exponent that may carry a sign
C8_GroupedByPrecedence ==
    (pc = "parsed" /\ error = None /\ cur_index = Len(tokens) /\ arithmetic(tokens))
        => shape(node) = grouping(SubSeq(tokens, 1, Len(tokens) - 1))

\* 2 + 2 * 2 was parsed: a + node over 2 and the product 2 * 2
C8_Witness ==
    /\ pc = "parsed"
    /\ error = None
    /\ arithmetic(tokens)
    /\ node.cls = "BinOpNode"
    /\ node.oper.type_ = "PLUS"
    /\ node.left.cls = "NumberNode"
    /\ node.right.cls = "BinOpNode"
    /\ node.right.oper.type_ = "MUL"

\* the sub-expressions of the node n
children(n) ==
    CASE n.cls = "BinOpNode" -> <<n.left, n.right>>
      [] n.cls = "UnaryOpNode" -> <<n.node>>
      [] n.cls = "VarAssignNode" -> <<n.value>>
      [] n.cls = "IfBlockNode" -> <<n.case[1], n.case[2], n.else_expr>>
      [] n.cls = "FuncDefNode" -> <<n.body>>
      [] n.cls = "FuncCallNode" -> <<n.node_to_call>> \o n.arguments
      [] OTHER -> <<>>

\* n and every node below it has a start and an end, and the span of a
\* node covers the span of each of its sub-expressions
RECURSIVE spans_cover(_)
spans_cover(n) ==
    /\ n.pos_start # NoPos
    /\ n.pos_end # NoPos
    /\ \A i \in DOMAIN children(n) :
          /\ spans_cover(children(n)[i])
          /\ n.pos_start <= children(n)[i].pos_start
          /\ children(n)[i].pos_end <= n.pos_end

\* C10: every node of a parsed AST has a defined span that covers the
\* spans of its sub-expressions
C10_SpansCoverSubExpressions ==
    (pc = "parsed" /\ error = None) => spans_cover(node)

\* C11: the cursor never passes the end-of-input token, and a syntax
\* error carries the start and the end of the token under the cursor,
\* a token of the stream
C11_CursorAndErrorWithinInput ==
    pc = "parsed" =>
        /\ cur_index \in 1..Len(tokens)
        /\ error # None =>
              /\ error.pos_start = tokens[cur_index].pos_start
              /\ error.pos_end = tokens[cur_index].pos_end

\* a parse consumed tokens and failed at the end-of-input token
C11_Witness ==
    /\ pc = "parsed"
    /\ error # None
    /\ Len(tokens) > 1
    /\ cur_index = Len(tokens)
    /\ error.pos_end = tokens[Len(tokens)].pos_end

\* C12: a parse records at most one error; parse returns that error, and
\* the cursor stays where it was when the error was recorded
C12_FirstErrorWins ==
    pc = "parsed" =>
        /\ Len(failures) <= 1
        /\ error = None <=> failures = <<>>
        /\ failures # <<>> =>
              /\ error = failures[1].error
              /\ cur_index = failures[1].cur_index

\* ( 1 + failed below atom, bin_oper and expr: "Expected Value" at the
\* end-of-input token came through all of them
C12_Witness ==
    /\ pc = "parsed"
    /\ Len(tokens) = 4
    /\ tokens[1].type_ = "L_PAREN"
    /\ tokens[3].type_ = "PLUS"
    /\ Len(failures) = 1
    /\ error = InvalidSyntaxError(tokens[4],
                   "Expected Value: identifier, int, float, '+', '-' or '('")

(***************************************************************************)
(* Properties of Interpreter.visit and run (Spec)                          *)
(***************************************************************************)
\* C3: a visit ends inside the result protocol: no host exception, and
\* exactly one of value and error set
C3_ResultProtocol ==
    (pc = "ran" /\ error = None) =>
        /\ result.raised = ""
        /\ (result.value # None) # (result.error # None)

\* C4: access of a name at top level fails with "'<name>' not defined" iff
\* the name is not bound; a bound name yields the value bound to it,
\* whatever the value
C4_NotDefinedIffUnbound ==
    (pc = "ran" /\ error = None /\ node.cls = "VarAccessNode") =>
        LET var_name == node.var_name.value
        IN IF var_name \in Bound(heap[GLOBAL_SYMBOL_MAP])
           THEN /\ result.error = None
                /\ result.value = heap[GLOBAL_SYMBOL_MAP].symbol_map[var_name]
           ELSE result.error = RTError("not defined", var_name)

\* the trace event of a visit of node n in scope s
Visited(n, s) == [ev |-> "visit", node |-> n, scope |-> s]

\* the positions of the trace that hold an event of the kind ev
Events(ev) == {i \in DOMAIN trace : trace[i].ev = ev}

\* the names of the parameters of the function f, in order
parameter_names(f) == [k \in DOMAIN f.parameters |-> f.parameters[k].value]

\* the call e had the wrong number of arguments: it is the last thing the
\* run did but for raising the error, the run returns the arity error and
\* the new scope binds nothing
ArityError(i) ==
    LET e == trace[i]
    IN /\ \A j \in (i + 1)..Len(trace) : trace[j].ev = "error"
       /\ result.raised = ""
       /\ result.error =
              RTError(IF Len(e.args) < e.func.n_parameters
                      THEN "Not enough arguments" ELSE "Too many arguments",
                      e.func.name)
       /\ DOMAIN e.bound = {}
       /\ Bound(heap[e.scope]) = {}

\* the call at trace position i went on to the body, in the new scope
BodyEvaluated(i) ==
    /\ i < Len(trace)
    /\ trace[i + 1] = Visited(trace[i].func.body, trace[i].scope)

\* every parameter is bound to the argument at its own position
BoundByPosition(e) ==
    /\ DOMAIN e.bound = {parameter_names(e.func)[k] : k \in DOMAIN e.args}
    /\ \A k \in DOMAIN e.args : e.bound[parameter_names(e.func)[k]] = e.args[k]

\* every parameter name is bound to the argument at the last position
\* that carries the name
BoundByLastPosition(e) ==
    /\ DOMAIN e.bound = {parameter_names(e.func)[k] : k \in DOMAIN e.args}
    /\ \A k \in DOMAIN e.args :
          (\A j \in DOMAIN e.args :
              parameter_names(e.func)[j] = parameter_names(e.func)[k] => j <= k)
          => e.bound[parameter_names(e.func)[k]] = e.args[k]

\* C5 as stated: a call with too few or too many arguments returns the
\* arity error without evaluating the body or binding a parameter; a call
\* with as many arguments as parameters evaluates the body in a scope that
\* binds the i-th parameter name to the i-th argument, for every i
C5_ParametersBoundInOrder ==
    pc = "ran" =>
        /\ \A i \in Events("mismatch") :
              Len(trace[i].args) # trace[i].func.n_parameters /\ ArityError(i)
        /\ \A i \in Events("execute") :
              /\ Len(trace[i].args) = trace[i].func.n_parameters
              /\ BodyEvaluated(i)
              /\ BoundByPosition(trace[i])

\* C5 amended: as C5, but a parameter name that occurs more than once is
\* bound to the argument of its last occurrence
C5_ParametersBoundLastWins ==
    pc = "ran" =>
        /\ \A i \in Events("mismatch") :
              Len(trace[i].args) # trace[i].func.n_parameters /\ ArityError(i)
        /\ \A i \in Events("execute") :
              /\ Len(trace[i].args) = trace[i].func.n_parameters
              /\ BodyEvaluated(i)
              /\ BoundByLastPosition(trace[i])

\* add(2, 3) ran: two arguments bound, the body evaluated to 5
C5_Witness ==
    /\ pc = "ran"
    /\ \E i \in Events("execute") :
          /\ trace[i].func.name = "add"
          /\ trace[i].args = <<IntNumber(2), IntNumber(3)>>
    /\ result.value = IntNumber(5)

\* the token stream of the program text ts
Text(ts) == WithPos(Append(ts, EOF))

TruthyAsClaimed(v) ==
    \/ v.type_name = "Bool" /\ v.value
    \/ v.type_name = "Number" /\ v.value[1] # 0

\* the truthy values: Bool true, a nonzero Number, or any Function
Truthy(v) == TruthyAsClaimed(v) \/ v.type_name = "Function"

\* the if-expression whose condition was evaluated at position i of the
\* trace tr goes on with the branch taken and never visits the other
OneBranch(tr, i, taken, untaken) ==
    /\ i < Len(tr)
    /\ tr[i + 1] = Visited(taken, tr[i].scope)
    /\ \A j \in DOMAIN tr : tr[j] # Visited(untaken, tr[i].scope)

\* every if-expression of the trace tr took the then-branch on a truthy
\* condition and the else-branch otherwise, and only that branch
BranchesChosen(tr, functions_are_truthy) ==
    \A i \in {i \in DOMAIN tr : tr[i].ev = "cond"} :
        IF IF functions_are_truthy THEN Truthy(tr[i].value)
           ELSE TruthyAsClaimed(tr[i].value)
        THEN OneBranch(tr, i, tr[i].node.case[2], tr[i].node.else_expr)
        ELSE OneBranch(tr, i, tr[i].node.else_expr, tr[i].node.case[2])

\* the names the visits of the trace tr bind in the scope s
names_set(tr, s) ==
    {tr[j].node.var_name.value :
        j \in {j \in DOMAIN tr : /\ tr[j].ev = "visit"
                                 /\ tr[j].scope = s
                                 /\ tr[j].node.cls = "VarAssignNode"}}
    \cup {tr[j].node.name :
        j \in {j \in DOMAIN tr : /\ tr[j].ev = "visit"
                                 /\ tr[j].scope = s
                                 /\ tr[j].node.cls = "FuncDefNode"}}

\* C7 as stated: the then-branch is evaluated when the condition is Bool
\* true or a nonzero Number, otherwise the else-branch; the other branch
\* is not evaluated, and a run binds only the names of the let and fun
\* nodes it evaluated
C7_OneBranchAsClaimed ==
    [][pc' = "ran" =>
        /\ BranchesChosen(trace', FALSE)
        /\ Bound(heap'[GLOBAL_SYMBOL_MAP]) \ Bound(heap[GLOBAL_SYMBOL_MAP])
              \subseteq names_set(trace', GLOBAL_SYMBOL_MAP)]_vars

\* C7 amended: as C7, with a Function condition counted as truthy
C7_OneBranch ==
    [][pc' = "ran" =>
        /\ BranchesChosen(trace', TRUE)
        /\ Bound(heap'[GLOBAL_SYMBOL_MAP]) \ Bound(heap[GLOBAL_SYMBOL_MAP])
              \subseteq names_set(trace', GLOBAL_SYMBOL_MAP)]_vars

\* if 1 < 2 then 10 else q ran with q unbound: the result is 10, no error
C7_Witness ==
    /\ pc = "ran"
    /\ node.cls = "IfBlockNode"
    /\ node.else_expr.cls = "VarAccessNode"
    /\ node.else_expr.var_name.value \notin Bound(heap[GLOBAL_SYMBOL_MAP])
    /\ Events("cond") # {}
    /\ result.error = None
    /\ result.value = IntNumber(10)

\* C9: no run removes a global binding, and a run that reads a name bound
\* by an earlier run gets the value of the most recent binding
C9_GlobalScopePersists ==
    [][/\ Bound(heap[GLOBAL_SYMBOL_MAP]) \subseteq Bound(heap'[GLOBAL_SYMBOL_MAP])
       /\ (/\ pc' = "ran"
           /\ error' = None
           /\ node'.cls = "VarAccessNode"
           /\ node'.var_name.value \in Bound(heap[GLOBAL_SYMBOL_MAP]))
          => /\ result'.error = None
             /\ result'.value = heap[GLOBAL_SYMBOL_MAP].symbol_map[node'.var_name.value]]_vars

\* where the trace holds the visit of node n in scope s, 0 if nowhere
visit_index(n, s) ==
    IF \E j \in DOMAIN trace : trace[j] = Visited(n, s)
    THEN CHOOSE j \in DOMAIN trace : trace[j] = Visited(n, s)
    ELSE 0

\* the operands of the binary node visited at trace position i are visited
\* left first, the right one later if at all
LeftThenRight(i) ==
    LET n == trace[i].node
        s == trace[i].scope
    IN /\ visit_index(n.left, s) = i + 1
       /\ visit_index(n.right, s) \in {0} \cup (i + 2)..Len(trace)

\* the callee of the call visited at trace position i is visited first and
\* an argument is visited only after the argument before it
CalleeThenArguments(i) ==
    LET n == trace[i].node
        s == trace[i].scope
    IN /\ visit_index(n.node_to_call, s) = i + 1
       /\ \A k \in DOMAIN n.arguments :
             visit_index(n.arguments[k], s) # 0 =>
                 /\ visit_index(n.arguments[k], s) > i + 1
                 /\ \A j \in 1..(k - 1) :
                       visit_index(n.arguments[j], s) \in
                           1..(visit_index(n.arguments[k], s) - 1)

\* C13: operands are visited left to right and callee before arguments in
\* order; the first error ends the evaluation: nothing is visited after
\* it, it is the error the run returns, and no scope changes after it
C13_AbortAtFirstError ==
    pc = "ran" =>
        /\ \A i \in Events("visit") :
              /\ trace[i].node.cls = "BinOpNode" => LeftThenRight(i)
              /\ trace[i].node.cls = "FuncCallNode" => CalleeThenArguments(i)
        /\ \A i \in Events("error") :
              /\ i = Len(trace)
              /\ result.error = trace[i].error
              /\ heap = trace[i].heap

\* add(y, (let v = 1)) ran with add bound and y not: the first argument
\* failed, the second was not visited and v is not bound
C13_Witness ==
    /\ pc = "ran"
    /\ node.cls = "FuncCallNode"
    /\ Len(node.arguments) = 2
    /\ visit_index(node.arguments[1], GLOBAL_SYMBOL_MAP) # 0
    /\ visit_index(node.arguments[2], GLOBAL_SYMBOL_MAP) = 0
    /\ result.error = RTError("not defined", "y")
    /\ "add" \in Bound(heap[GLOBAL_SYMBOL_MAP])
    /\ "v" \notin Bound(heap[GLOBAL_SYMBOL_MAP])

\* the scope m binds the name x to something else than the scope m2 does
rebound(m, m2, x) ==
    \/ x \notin Bound(m)
    \/ x \notin Bound(m2)
    \/ m.symbol_map[x].type_name # m2.symbol_map[x].type_name
    \/ m.symbol_map[x] # m2.symbol_map[x]

\* C14: a function definition returns the function; a named one adds the
\* binding name -> function to the current scope and nothing else, an
\* anonymous one leaves the current scope as it was
C14_RegisteredOnlyIfNamed ==
    [][(pc' = "ran" /\ error' = None /\ node'.cls = "FuncDefNode") =>
        /\ result'.error = None
        /\ result'.value.type_name = "Function"
        /\ result'.value.body = node'.body
        /\ IF tokens'[2].type_ = "IDENTIFIER"
           THEN /\ Bound(heap'[GLOBAL_SYMBOL_MAP])
                       = Bound(heap[GLOBAL_SYMBOL_MAP]) \cup {tokens'[2].value}
                /\ heap'[GLOBAL_SYMBOL_MAP].symbol_map[tokens'[2].value] = result'.value
                /\ \A x \in Bound(heap[GLOBAL_SYMBOL_MAP]) \ {tokens'[2].value} :
                      ~rebound(heap[GLOBAL_SYMBOL_MAP], heap'[GLOBAL_SYMBOL_MAP], x)
           ELSE heap' = heap]_vars

\* C15: a run changes a scope that was there before it only at the names
\* of the let and fun nodes it evaluated in that very scope; a call binds
\* its parameters in a scope that was not there before; every let that a
\* run without error evaluated has bound its name in the scope it was
\* evaluated in
C15_LetBindsCurrentScopeOnly ==
    [][pc' = "ran" =>
        /\ Len(heap') >= Len(heap)
        /\ \A id \in DOMAIN heap :
              /\ heap'[id].parent = heap[id].parent
              /\ \A x \in Bound(heap[id]) \cup Bound(heap'[id]) :
                    rebound(heap[id], heap'[id], x) => x \in names_set(trace', id)
        /\ \A i \in {i \in DOMAIN trace' : trace'[i].ev = "execute"} :
              trace'[i].scope > Len(heap)
        /\ (result'.raised = "" /\ result'.error = None) =>
              \A i \in {i \in DOMAIN trace' : /\ trace'[i].ev = "visit"
                                              /\ trace'[i].node.cls = "VarAssignNode"} :
                  trace'[i].node.var_name.value \in Bound(heap'[trace'[i].scope])]_vars

\* o(1) ran while the global scope binds x to 5: the let in the body of o
\* has set x to 7 in the scope of the call, which bound x to 1 before, and
\* the global x is still 5
C15_Witness ==
    /\ pc = "ran"
    /\ tokens = Text(Call(Id("o"), <<Num(1)>>))
    /\ result.value = IntNumber(7)
    /\ "x" \in Bound(heap[GLOBAL_SYMBOL_MAP])
    /\ heap[GLOBAL_SYMBOL_MAP].symbol_map["x"] = IntNumber(5)
    /\ \E i \in Events("execute") :
          /\ trace[i].func.name = "o"
          /\ trace[i].bound["x"] = IntNumber(1)
          /\ heap[trace[i].scope].symbol_map["x"] = IntNumber(7)

\* the value the name x is bound to in the scope id of the scopes h or,
\* failing that, in the nearest enclosing scope that binds it
RECURSIVE binding(_, _, _)
binding(h, id, x) ==
    CASE x \in Bound(h[id]) -> h[id].symbol_map[x]
      [] x \notin Bound(h[id]) /\ h[id].parent = 0 -> None
      [] OTHER -> binding(h, h[id].parent, x)

\* C16: a call of a function that reads a variable of the scope it was
\* defined in (not a parameter) gets the value the variable has in that
\* scope when it is read, also when it was assigned after the function
\* was made
C16_CapturedByReference ==
    pc = "ran" =>
        \A j \in Events("visit") : \A i \in Events("execute") :
            (/\ trace[j].node.cls = "VarAccessNode"
             /\ trace[i].scope = trace[j].scope
             /\ trace[j].node.var_name.value \notin Bound(trace[j + 1].heap[trace[j].scope])
             /\ binding(trace[j + 1].heap, trace[i].func.defined_in,
                        trace[j].node.var_name.value) # None)
            => /\ trace[j + 1].ev = "read"
               /\ trace[j + 1].value.type_name =
                      binding(trace[j + 1].heap, trace[i].func.defined_in,
                              trace[j].node.var_name.value).type_name
               /\ trace[j + 1].value =
                      binding(trace[j + 1].heap, trace[i].func.defined_in,
                              trace[j].node.var_name.value)

====
